---- MODULE Spec2Model ----
(***************************************************************************)
(* A model of gutengrep.py: the orchestrator gutengrep() with the cache    *)
(* file, the loader/segmenter loop, the matcher loop, the corrector loop   *)
(* and the reporter, as a state machine whose actions are the statements   *)
(* of the program in the order Python executes them (Python 2 semantics,   *)
(* as the __future__ imports of the file ask for).                         *)
(*                                                                         *)
(* A string is a sequence of one-character strings.  Python's None, an     *)
(* unbound local and an absent file are records with a flag, so that every *)
(* variable keeps one shape.                                               *)
(***************************************************************************)
EXTENDS Integers, Sequences, FiniteSets, TLC

VARIABLES
    pc,                  \* position of the running process
    status,              \* how the last process ended
    runs,                \* processes started so far
    args,                \* the parsed command line of the running process
    files,               \* gutengrep's local `files`
    flags,               \* gutengrep's local `flags`
    sentences,           \* gutengrep's local `sentences`
    disk,                \* the input files the glob can resolve to
    cacheFile,           \* the file at SENTENCES_CACHE
    outFiles,            \* the output artifacts: outfile and outfile + "-sort"
    TOKENIZER,           \* the module global TOKENIZER
    i,                   \* loop index of the running loop
    all_sentences,       \* load_sentences_from_files' local
    matching_sentences,  \* find_matching_sentences' local
    hist,                \* history of the running process
    log                  \* histories of the processes that ended, oldest first

vars == <<pc, status, runs, args, files, flags, sentences, disk, cacheFile,
          outFiles, TOKENIZER, i, all_sentences, matching_sentences, hist, log>>

-----------------------------------------------------------------------------
(* Bounds of the exploration.                                              *)

MaxRuns == 2
MaxFiles == 2
MaxFileSentences == 2
MaxCacheLen == 2
MaxSentenceLen == 2
MaxCorpusLen == 2
MaxRegexLen == 2

-----------------------------------------------------------------------------
(* Values.                                                                 *)

None == [isNone |-> TRUE, val |-> <<>>]
Some(v) == [isNone |-> FALSE, val |-> v]

\* Python truth value of None or a list: `not x`.
Not(x) == x.isNone \/ x.val = <<>>

SeqsUpTo(S, n) == UNION {[1..k -> S] : k \in 0..n}

DQ == "\""
SQ == "'"

\* Characters of the sentences the matcher is explored on, and of its patterns.
Letters == {"a", "A"}
PatternChars == Letters \cup {"."}
\* Characters of the sentences the corrector is explored on.
QuoteChars == {DQ, SQ, "x"}

\* The sentences the segmenter yields for the files of the explored disks.
DiskSentences == {<<"a">>, <<DQ, "A">>}

InvalidRegex == <<"(">>

-----------------------------------------------------------------------------
(* Strings.                                                                *)

startswith(s, q) == Len(s) > 0 /\ s[1] = q
endswith(s, q) == Len(s) > 0 /\ s[Len(s)] = q

\* Case folding of re.IGNORECASE on the explored characters.
lower(c) == IF c = "A" THEN "a" ELSE c

-----------------------------------------------------------------------------
(* re.search(regex, sentence, flags) for patterns of literal characters    *)
(* and the wildcard ".".  Compiling a pattern with an unbalanced "("       *)
(* raises re.error.                                                        *)

re_compiles(regex) == \A k \in 1..Len(regex) : regex[k] # "("

char_matches(p, c, fl) ==
    \/ p = "."
    \/ p = c
    \/ "IGNORECASE" \in fl /\ lower(p) = lower(c)

RECURSIVE match_at(_, _, _, _, _)
\* the pattern from its k-th character on matches the sentence at position pos
match_at(regex, sentence, pos, k, fl) ==
    IF k > Len(regex) THEN TRUE
    ELSE IF pos > Len(sentence) THEN FALSE
    ELSE IF char_matches(regex[k], sentence[pos], fl)
         THEN match_at(regex, sentence, pos + 1, k + 1, fl)
         ELSE FALSE

RECURSIVE scan_from(_, _, _, _)
\* re.search tries every start position from left to right
scan_from(regex, sentence, start, fl) ==
    IF start > Len(sentence) + 1 THEN FALSE
    ELSE IF match_at(regex, sentence, start, 1, fl) THEN TRUE
    ELSE scan_from(regex, sentence, start + 1, fl)

\* re.match: anchored at the start of the sentence.
re_match(regex, sentence, fl) == match_at(regex, sentence, 1, 1, fl)

re_search(regex, sentence, fl) == scan_from(regex, sentence, 1, fl)

-----------------------------------------------------------------------------
(* pickle.dump(data, fp, -1) of a list of unicode strings and pickle.load, *)
(* as the opcode stream of protocol 2.                                     *)

Op(name) == [op |-> name, arg |-> <<>>]

pickle_dump(data) ==
    <<Op("PROTO"), Op("EMPTY_LIST")>>
    \o (IF data = <<>> THEN <<>>
        ELSE <<Op("MARK")>>
             \o [k \in 1..Len(data) |-> [op |-> "BINUNICODE", arg |-> data[k]]]
             \o <<Op("APPENDS")>>)
    \o <<Op("STOP")>>

RECURSIVE unpickle(_, _, _, _)
\* The unpickler: reads opcode pos with the list built so far; `marked` says
\* that a MARK is open.  Running off the end of the stream is EOFError.
unpickle(bytes, pos, items, marked) ==
    IF pos > Len(bytes) THEN [ok |-> FALSE, data |-> <<>>]
    ELSE LET o == bytes[pos] IN
         IF o.op = "PROTO" /\ pos = 1 THEN unpickle(bytes, pos + 1, items, marked)
         ELSE IF o.op = "EMPTY_LIST" /\ pos = 2 THEN unpickle(bytes, pos + 1, <<>>, FALSE)
         ELSE IF o.op = "MARK" /\ pos > 2 /\ ~marked THEN unpickle(bytes, pos + 1, items, TRUE)
         ELSE IF o.op = "BINUNICODE" /\ marked THEN unpickle(bytes, pos + 1, Append(items, o.arg), TRUE)
         ELSE IF o.op = "APPENDS" /\ marked THEN unpickle(bytes, pos + 1, items, FALSE)
         ELSE IF o.op = "STOP" /\ pos > 2 /\ ~marked THEN [ok |-> TRUE, data |-> items]
         ELSE [ok |-> FALSE, data |-> <<>>]

pickle_load(bytes) == unpickle(bytes, 1, <<>>, FALSE)

-----------------------------------------------------------------------------
(* Files.                                                                  *)

NoFile == [exists |-> FALSE, bytes |-> <<>>]
File(b) == [exists |-> TRUE, bytes |-> b]

NoInspec == "<None>"
Inspecs == {NoInspec, "*.txt", "*.xyz"}

\* glob.glob(inspec): "*.txt" names every input file, in directory order.
glob(inspec) == IF inspec = "*.txt" THEN [k \in 1..Len(disk) |-> k] ELSE <<>>

RECURSIVE replace_crlf(_)
\* s.replace("\r\n", " ")
replace_crlf(s) ==
    IF s = <<>> THEN <<>>
    ELSE IF Len(s) >= 2 /\ s[1] = "\r" /\ s[2] = "\n"
    THEN <<" ">> \o replace_crlf(SubSeq(s, 3, Len(s)))
    ELSE <<s[1]>> \o replace_crlf(Tail(s))

\* output(), lines 100-103: the block written for one sentence.  The explored
\* sentences hold no white space and are shorter than the wrap width, so
\* textwrap.fill returns them as they are.
block(s) == replace_crlf(s) \o <<"\n", "\n">>

RECURSIVE insert_by_len(_, _)
insert_by_len(sorted, s) ==
    IF sorted = <<>> THEN <<s>>
    ELSE IF Len(s) < Len(Head(sorted)) THEN <<s>> \o sorted
    ELSE <<Head(sorted)>> \o insert_by_len(Tail(sorted), s)

RECURSIVE sort_by_len(_)
\* list.sort(key=len): ascending, stable.
sort_by_len(ss) ==
    IF ss = <<>> THEN <<>>
    ELSE insert_by_len(sort_by_len(SubSeq(ss, 1, Len(ss) - 1)), ss[Len(ss)])

-----------------------------------------------------------------------------
(* The explored inputs.                                                    *)

FileContents == [decodes : BOOLEAN, sentences : SeqsUpTo(DiskSentences, MaxFileSentences)]
Disks == UNION {[1..n -> FileContents] : n \in 1..MaxFiles}

\* The disks and cache files the whole program is explored on: one file of
\* at most one sentence, and a cache file that is absent or a record
\* written by an earlier process.
RunDisks ==
    {d \in Disks : /\ Len(d) = 1
                   /\ Len(d[1].sentences) <= 1
                   /\ (~d[1].decodes => d[1].sentences # <<>>)}
RunCaches ==
    {NoFile} \cup {File(pickle_dump(c)) : c \in SeqsUpTo({<<"a">>}, MaxCacheLen)}

Regexes == SeqsUpTo(PatternChars, MaxRegexLen) \cup {InvalidRegex}
RunRegexes == {<<"a">>, InvalidRegex}

ArgsOf(R) == [regex : R, inspec : Inspecs, ignore_case : BOOLEAN,
              sort : BOOLEAN, cache : BOOLEAN, correct : BOOLEAN]

NoArgs == [regex |-> <<>>, inspec |-> NoInspec, ignore_case |-> FALSE,
           sort |-> FALSE, cache |-> FALSE, correct |-> FALSE]

Unbound == [bound |-> FALSE, val |-> <<>>]
Bound(v) == [bound |-> TRUE, val |-> v]

\* What is remembered of a process: its command line, the cache file it
\* found, what it did, and how and with which files it ended.
NoHist ==
    [done |-> FALSE, args |-> NoArgs, status |-> "none",
     cache0 |-> NoFile, cache1 |-> NoFile,
     out1 |-> [main |-> NoFile, sorted |-> NoFile],
     loaderRan |-> FALSE, saved |-> FALSE,
     corpus |-> None, matched |-> None,
     wrote |-> {}, input |-> <<>>, first |-> None]

-----------------------------------------------------------------------------
(* Process start and end.                                                  *)

\* The process ends with status st: its locals are gone, the files stay.
Finish(st, cf, of, h) ==
    /\ pc' = "idle"
    /\ status' = st
    /\ log' = Append(log, [h EXCEPT !.done = TRUE, !.status = st,
                                     !.cache1 = cf, !.out1 = of])
    /\ hist' = NoHist
    /\ args' = NoArgs
    /\ files' = Unbound
    /\ flags' = {}
    /\ sentences' = None
    /\ TOKENIZER' = None
    /\ i' = 0
    /\ all_sentences' = <<>>
    /\ matching_sentences' = <<>>

Init ==
    /\ pc = "idle"
    /\ status = "none"
    /\ runs = 0
    /\ args = NoArgs
    /\ files = Unbound
    /\ flags = {}
    /\ sentences = None
    /\ disk \in RunDisks
    /\ cacheFile \in RunCaches
    /\ outFiles = [main |-> NoFile, sorted |-> NoFile]
    /\ TOKENIZER = None
    /\ i = 0
    /\ all_sentences = <<>>
    /\ matching_sentences = <<>>
    /\ hist = NoHist
    /\ log = <<>>

\* gutengrep(), lines 133-146: the argument checks, the glob and the flags.
Start ==
    /\ pc = "idle"
    /\ runs < MaxRuns
    /\ runs' = runs + 1
    /\ \E a \in ArgsOf(RunRegexes) :
        /\ LET h == [NoHist EXCEPT !.args = a, !.cache0 = cacheFile] IN
           IF a.inspec = NoInspec /\ ~a.cache
           THEN \* sys.exit("Error: inspec and/or cache arguments needed")
                /\ Finish("sys_exit", cacheFile, outFiles, h)
           ELSE IF a.inspec # NoInspec /\ glob(a.inspec) = <<>>
           THEN \* sys.exit("No input files found matching " + inspec)
                /\ Finish("sys_exit", cacheFile, outFiles, h)
           ELSE /\ pc' = "open"
                /\ args' = a
                /\ status' = "running"
                /\ files' = IF a.inspec # NoInspec THEN Bound(glob(a.inspec)) ELSE Unbound
                /\ flags' = IF a.ignore_case THEN {"IGNORECASE"} ELSE {}
                /\ sentences' = None
                /\ hist' = h
                /\ UNCHANGED <<log, TOKENIZER, i, all_sentences, matching_sentences>>
    /\ UNCHANGED <<disk, cacheFile, outFiles>>

-----------------------------------------------------------------------------
(* Corpus Cache and the choice between the cache and the fresh pass.       *)

\* load_cache(filename): None without a file, the unpickled data with one;
\* `raised` when pickle.load raises.
load_cache(file) ==
    IF file.exists
    THEN LET r == pickle_load(file.bytes) IN
         [raised |-> ~r.ok, data |-> IF r.ok THEN Some(r.data) ELSE None]
    ELSE [raised |-> FALSE, data |-> None]

\* gutengrep(), lines 148-152: load the cache when asked to, and start the
\* fresh pass when `sentences` is falsy.  Evaluating the argument `files`
\* of the call raises UnboundLocalError when no inspec was given.
Open ==
    /\ pc = "open"
    /\ LET r == IF args.cache THEN load_cache(cacheFile)
                ELSE [raised |-> FALSE, data |-> None]
       IN IF r.raised
          THEN Finish("exception", cacheFile, outFiles, hist)
          ELSE IF Not(r.data)
          THEN IF ~files.bound
               THEN Finish("exception", cacheFile, outFiles, hist)
               ELSE /\ pc' = "load"
                    /\ sentences' = r.data
                    /\ i' = 0
                    /\ all_sentences' = <<>>
                    /\ hist' = [hist EXCEPT !.loaderRan = TRUE]
                    /\ UNCHANGED <<status, args, files, flags, TOKENIZER,
                                   matching_sentences, log>>
          ELSE /\ pc' = "match"
               /\ sentences' = r.data
               /\ i' = 0
               /\ matching_sentences' = <<>>
               /\ hist' = [hist EXCEPT !.corpus = r.data]
               /\ UNCHANGED <<status, args, files, flags, TOKENIZER,
                              all_sentences, log>>
    /\ UNCHANGED <<runs, disk, cacheFile, outFiles>>

-----------------------------------------------------------------------------
(* Loader and Segmenter.                                                   *)

\* A file read without regard to its decode error.
find_sentences_ignoring_errors(filename, tok) ==
    [sentences |-> disk[filename].sentences, TOKENIZER |-> Some(<<"punkt">>)]

\* find_sentences_in_text(filename): the sentences of the file and the
\* TOKENIZER global afterwards.  UnicodeDecodeError is raised by fp.read(),
\* before the tokenizer is looked at.
find_sentences_in_text(filename, tok) ==
    IF disk[filename].decodes
    THEN [sentences |-> disk[filename].sentences,
          TOKENIZER |-> IF tok.isNone THEN Some(<<"punkt">>) ELSE tok]
    ELSE [sentences |-> <<>>, TOKENIZER |-> tok]

\* load_sentences_from_files(), lines 76-80: one iteration of the loop.
LoadStep ==
    /\ pc = "load"
    /\ i < Len(files.val)
    /\ LET r == find_sentences_in_text(files.val[i + 1], TOKENIZER) IN
        /\ all_sentences' = all_sentences \o r.sentences
        /\ TOKENIZER' = r.TOKENIZER
    /\ i' = i + 1
    /\ UNCHANGED <<pc, status, runs, args, files, flags, sentences, disk,
                   cacheFile, outFiles, matching_sentences, hist, log>>

\* load_sentences_from_files() returns, and gutengrep(), lines 152-153.
LoadReturn ==
    /\ pc = "load"
    /\ i = Len(files.val)
    /\ sentences' = Some(all_sentences)
    /\ hist' = [hist EXCEPT !.corpus = Some(all_sentences)]
    /\ pc' = IF args.cache THEN "save_open" ELSE "match"
    /\ i' = 0
    /\ matching_sentences' = <<>>
    /\ UNCHANGED <<status, runs, args, files, flags, disk, cacheFile, outFiles,
                   TOKENIZER, all_sentences, log>>

\* save_cache(), line 35: open(filename, 'wb') truncates the file.
SaveOpen ==
    /\ pc = "save_open"
    /\ cacheFile' = File(<<>>)
    /\ hist' = [hist EXCEPT !.saved = TRUE]
    /\ pc' = "save_dump"
    /\ UNCHANGED <<status, runs, args, files, flags, sentences, disk, outFiles,
                   TOKENIZER, i, all_sentences, matching_sentences, log>>

\* save_cache(), line 36: pickle.dump writes the record; the file is closed.
SaveDump ==
    /\ pc = "save_dump"
    /\ cacheFile' = File(pickle_dump(sentences.val))
    /\ pc' = "match"
    /\ UNCHANGED <<status, runs, args, files, flags, sentences, disk, outFiles,
                   TOKENIZER, i, all_sentences, matching_sentences, hist, log>>

\* The process is killed between the open and the end of the dump: the file
\* keeps the opcodes written so far.
CrashDuringSave ==
    /\ pc = "save_dump"
    /\ \E n \in 0..(Len(pickle_dump(sentences.val)) - 1) :
          Finish("crashed", File(SubSeq(pickle_dump(sentences.val), 1, n)), outFiles, hist)
          /\ cacheFile' = File(SubSeq(pickle_dump(sentences.val), 1, n))
    /\ UNCHANGED <<runs, disk, outFiles>>

-----------------------------------------------------------------------------
(* Matcher.                                                                *)

\* find_matching_sentences(), lines 88-93: one iteration of the loop.  The
\* pattern is compiled by the first re.search, which raises re.error on a
\* pattern that does not compile.
MatchStep ==
    /\ pc = "match"
    /\ i < Len(sentences.val)
    /\ IF ~re_compiles(args.regex)
       THEN Finish("exception", cacheFile, outFiles, hist)
       ELSE /\ matching_sentences' =
                   IF re_search(args.regex, sentences.val[i + 1], flags)
                   THEN Append(matching_sentences, sentences.val[i + 1])
                   ELSE matching_sentences
            /\ i' = i + 1
            /\ UNCHANGED <<pc, status, args, files, flags, sentences, TOKENIZER,
                           all_sentences, hist, log>>
    /\ UNCHANGED <<runs, disk, cacheFile, outFiles>>

\* find_matching_sentences() returns, and gutengrep(), lines 159-161.
MatchReturn ==
    /\ pc = "match"
    /\ i = Len(sentences.val)
    /\ sentences' = Some(matching_sentences)
    /\ hist' = [hist EXCEPT !.matched = Some(matching_sentences)]
    /\ pc' = IF args.correct THEN "correct" ELSE "output"
    /\ i' = 0
    /\ UNCHANGED <<status, runs, args, files, flags, disk, cacheFile, outFiles,
                   TOKENIZER, all_sentences, matching_sentences, log>>

-----------------------------------------------------------------------------
(* Corrector.                                                              *)

\* A corrector that appends the closing quote whether or not it is there.
correct_always_appending(sentence) ==
    IF startswith(sentence, DQ) THEN Append(sentence, DQ)
    ELSE IF startswith(sentence, SQ) THEN Append(sentence, SQ)
    ELSE sentence

\* correct_those(), lines 118-126: the value of sentences[i] after the body
\* of the loop.  Both statements test `sentence`, the value before the body.
correct_one(sentence) ==
    LET step1 == IF startswith(sentence, DQ) /\ ~endswith(sentence, DQ)
                 THEN Append(sentence, DQ)
                 ELSE IF startswith(sentence, SQ) /\ ~endswith(sentence, SQ)
                 THEN Append(sentence, SQ)
                 ELSE sentence
    IN IF ~startswith(sentence, DQ) /\ endswith(sentence, DQ)
       THEN <<DQ>> \o sentence
       ELSE IF ~startswith(sentence, SQ) /\ endswith(sentence, SQ)
       THEN <<SQ>> \o sentence
       ELSE step1

\* correct_those(), lines 117-126: one iteration of the loop, in place.
CorrectStep ==
    /\ pc = "correct"
    /\ i < Len(sentences.val)
    /\ sentences' = Some([sentences.val EXCEPT ![i + 1] = correct_one(@)])
    /\ i' = i + 1
    /\ UNCHANGED <<pc, status, runs, args, files, flags, disk, cacheFile, outFiles,
                   TOKENIZER, all_sentences, matching_sentences, hist, log>>

\* correct_those() returns the list it was given.
CorrectReturn ==
    /\ pc = "correct"
    /\ i = Len(sentences.val)
    /\ pc' = "output"
    /\ i' = 0
    /\ UNCHANGED <<status, runs, args, files, flags, sentences, disk, cacheFile,
                   outFiles, TOKENIZER, all_sentences, matching_sentences, hist, log>>

-----------------------------------------------------------------------------
(* Reporter.                                                               *)

\* output(sentences, filename): the file holds one block per sentence.
output(ss) == File([k \in 1..Len(ss) |-> block(ss[k])])

\* gutengrep(), lines 164-170: the report, the sorted report when asked
\* for, and the end of the process.
Report ==
    /\ pc = "output"
    /\ LET of == [main |-> output(sentences.val),
                  sorted |-> IF args.sort THEN output(sort_by_len(sentences.val))
                             ELSE outFiles.sorted]
           w == IF args.sort THEN {"main", "sorted"} ELSE {"main"}
       IN /\ outFiles' = of
          /\ Finish("ok", cacheFile, of, [hist EXCEPT !.wrote = w])
    /\ UNCHANGED <<runs, disk, cacheFile>>

Next ==
    \/ Start
    \/ Open
    \/ LoadStep
    \/ LoadReturn
    \/ SaveOpen
    \/ SaveDump
    \/ CrashDuringSave
    \/ MatchStep
    \/ MatchReturn
    \/ CorrectStep
    \/ CorrectReturn
    \/ Report

Spec == Init /\ [][Next]_vars

-----------------------------------------------------------------------------
(* load_sentences_from_files on its own: every list of files, no cache.    *)

Running(position) ==
    /\ pc = position
    /\ status = "running"
    /\ runs = 1
    /\ cacheFile = NoFile
    /\ outFiles = [main |-> NoFile, sorted |-> NoFile]
    /\ i = 0
    /\ all_sentences = <<>>
    /\ matching_sentences = <<>>
    /\ log = <<>>

InitLoad ==
    /\ Running("load")
    /\ disk \in Disks
    /\ args = [NoArgs EXCEPT !.inspec = "*.txt"]
    /\ files = Bound(glob("*.txt"))
    /\ flags = {}
    /\ sentences = None
    /\ TOKENIZER = None
    /\ hist = [NoHist EXCEPT !.args = args, !.loaderRan = TRUE]

NextLoad ==
    \/ LoadStep
    \/ LoadReturn

SpecLoad == InitLoad /\ [][NextLoad]_vars

-----------------------------------------------------------------------------
(* find_matching_sentences on its own: every pattern, flag and Corpus.     *)

MatchSentences == SeqsUpTo(Letters, MaxSentenceLen)

InitMatch ==
    /\ Running("match")
    /\ disk = <<>>
    /\ \E r \in Regexes, ic \in BOOLEAN :
        /\ args = [NoArgs EXCEPT !.regex = r, !.ignore_case = ic]
        /\ flags = IF ic THEN {"IGNORECASE"} ELSE {}
    /\ files = Unbound
    /\ sentences \in {Some(c) : c \in SeqsUpTo(MatchSentences, MaxCorpusLen)}
    /\ TOKENIZER = None
    /\ hist = [NoHist EXCEPT !.args = args, !.corpus = sentences]

NextMatch ==
    \/ MatchStep
    \/ MatchReturn

SpecMatch == InitMatch /\ [][NextMatch]_vars

-----------------------------------------------------------------------------
(* correct_those on its own, applied to a list and then to its own result. *)

QuoteSentences == SeqsUpTo(QuoteChars, MaxSentenceLen)

InitCorrect ==
    /\ Running("correct")
    /\ disk = <<>>
    /\ args = [NoArgs EXCEPT !.correct = TRUE]
    /\ flags = {}
    /\ files = Unbound
    /\ sentences \in {Some(c) : c \in SeqsUpTo(QuoteSentences, MaxCorpusLen)}
    /\ TOKENIZER = None
    /\ hist = [NoHist EXCEPT !.args = args, !.input = sentences.val]

\* The result of the first application is handed to correct_those again.
CorrectAgain ==
    /\ pc = "output"
    /\ hist.first.isNone
    /\ hist' = [hist EXCEPT !.first = sentences]
    /\ pc' = "correct"
    /\ i' = 0
    /\ UNCHANGED <<status, runs, args, files, flags, sentences, disk, cacheFile,
                   outFiles, TOKENIZER, all_sentences, matching_sentences, log>>

NextCorrect ==
    \/ CorrectStep
    \/ CorrectReturn
    \/ CorrectAgain

SpecCorrect == InitCorrect /\ [][NextCorrect]_vars

-----------------------------------------------------------------------------
(* Notions the properties are stated in.                                   *)

\* A cache file that holds a complete record.
ValidRecord(file) == file.exists /\ pickle_load(file.bytes).ok
RecordOf(file) == pickle_load(file.bytes).data

\* The process was given a file list resolved from a file-glob.
HasFileList(h) == h.args.inspec # NoInspec /\ glob(h.args.inspec) # <<>>

\* The histories of the processes that ended and of the running one, in
\* the order the processes were started.
Processes == IF pc = "idle" THEN log ELSE Append(log, hist)

\* The regex predicate: the pattern matches somewhere in the sentence, with
\* or without regard to case.
RegexPredicate(regex, s, ignore_case) ==
    \E p \in 1..(Len(s) + 1) :
        /\ p + Len(regex) - 1 <= Len(s)
        /\ \A k \in 1..Len(regex) :
              \/ regex[k] = "."
              \/ regex[k] = s[p + k - 1]
              \/ ignore_case /\ lower(regex[k]) = lower(s[p + k - 1])

RECURSIVE DecodedSentences(_)
\* The sentences of the files of a list that decode, file by file.
DecodedSentences(fs) ==
    IF fs = <<>> THEN <<>>
    ELSE DecodedSentences(SubSeq(fs, 1, Len(fs) - 1))
         \o (IF disk[fs[Len(fs)]].decodes THEN disk[fs[Len(fs)]].sentences ELSE <<>>)

HasSuffix(s, suffix) ==
    Len(s) >= Len(suffix) /\ SubSeq(s, Len(s) - Len(suffix) + 1, Len(s)) = suffix

-----------------------------------------------------------------------------
(* C1: whenever caching is requested and a cache file holding a record     *)
(* exists, whatever the record holds (the empty sequence included), the    *)
(* process never starts the fresh pass, never rewrites the cache file, and *)
(* the Corpus it hands to the Matcher is the cached sequence.              *)
C1_CacheHitBypassesFreshPass ==
    \A k \in 1..Len(Processes) : LET h == Processes[k] IN
        (h.args.cache /\ ValidRecord(h.cache0)) =>
            /\ ~h.loaderRan
            /\ ~h.saved
            /\ (h.done => h.cache1 = h.cache0)
            /\ (~h.corpus.isNone => h.corpus.val = RecordOf(h.cache0))

(* C2: two processes started with the same existing cache file, the same   *)
(* regex and the same flags, --cache set, that differ only in inspec, end  *)
(* alike: same status, same Match Set, same output files, same cache file. *)
C2_CacheHitIgnoresInspec ==
    \A x, y \in 1..Len(log) :
        (/\ log[x].args.cache
         /\ log[y].args.cache
         /\ log[x].cache0.exists
         /\ log[x].cache0 = log[y].cache0
         /\ [log[x].args EXCEPT !.inspec = NoInspec] = [log[y].args EXCEPT !.inspec = NoInspec]
         /\ log[x].status # "crashed"
         /\ log[y].status # "crashed") =>
            /\ log[x].status = log[y].status
            /\ log[x].matched = log[y].matched
            /\ log[x].out1 = log[y].out1
            /\ log[x].cache1 = log[y].cache1

(* C3: a process with neither a file list resolved from a file-glob nor an *)
(* existing cache to use ends by sys.exit with a message, without having   *)
(* started the fresh pass and without output.                              *)
C3_NoInputIsConfigurationError ==
    \A k \in 1..Len(log) :
        (~HasFileList(log[k]) /\ ~(log[k].args.cache /\ log[k].cache0.exists)) =>
            /\ log[k].status = "sys_exit"
            /\ ~log[k].loaderRan
            /\ log[k].wrote = {}

(* C4: when a process with caching requested finds no cache file and saves *)
(* the Corpus it computed, whatever its size, the next process with        *)
(* caching requested does not run the Loader and Segmenter again, and the  *)
(* Corpus it uses is the saved one.                                        *)
C4_NextRunReusesSavedCorpus ==
    \A k \in 1..(Len(Processes) - 1) :
        LET first == Processes[k]
            next == Processes[k + 1]
        IN (/\ first.args.cache
            /\ ~first.cache0.exists
            /\ first.saved
            /\ first.cache1 = File(pickle_dump(first.corpus.val))
            /\ next.args.cache) =>
               /\ ~next.loaderRan
               /\ (~next.corpus.isNone => next.corpus = first.corpus)

(* C5: a process given a regex that does not compile ends in a fatal error *)
(* and writes no output artifact, whatever Corpus it obtained.             *)
C5_InvalidRegexIsFatal ==
    \A k \in 1..Len(log) :
        (~re_compiles(log[k].args.regex) /\ log[k].status # "crashed") =>
            /\ log[k].status \in {"sys_exit", "exception"}
            /\ log[k].wrote = {}

(* C9: a process killed while it writes the cache, started with a cache    *)
(* file that held a complete record, leaves the cache file holding that    *)
(* record or the complete new one.                                         *)
C9_CrashKeepsValidCache ==
    \A k \in 1..Len(log) :
        (log[k].status = "crashed" /\ ValidRecord(log[k].cache0)) =>
            \/ log[k].cache1 = log[k].cache0
            \/ log[k].cache1 = File(pickle_dump(log[k].corpus.val))

-----------------------------------------------------------------------------
(* C6: step 1 of the Corrector.  A sentence that starts with " and does    *)
(* not end with " is corrected to a sentence that ends with the appended   *)
(* ", and otherwise one that starts with ' and does not end with ' to a    *)
(* sentence that ends with the appended ', also when step 2 fires on the   *)
(* same sentence for the other quote character.                            *)
C6_Step1AppendsClosingQuote ==
    ~hist.first.isNone =>
        \A k \in 1..Len(hist.input) :
            LET s == hist.input[k]
                r == hist.first.val[k]
            IN /\ (startswith(s, DQ) /\ ~endswith(s, DQ)) => HasSuffix(r, Append(s, DQ))
               /\ (~startswith(s, DQ) /\ startswith(s, SQ) /\ ~endswith(s, SQ))
                      => HasSuffix(r, Append(s, SQ))

(* C7: find_matching_sentences returns exactly the sentences of the Corpus *)
(* that satisfy the regex predicate under the requested case sensitivity,  *)
(* each as often as the Corpus holds it and in the order of the Corpus,    *)
(* and leaves the Corpus as it was.                                        *)
C7_MatchSetIsFilteredCorpus ==
    LET Satisfies(s) == RegexPredicate(args.regex, s, args.ignore_case) IN
    /\ (pc = "match" => sentences = hist.corpus)
    /\ (~hist.matched.isNone =>
            /\ hist.matched.val = SelectSeq(hist.corpus.val, Satisfies)
            /\ sentences = hist.matched)

\* C7's case: the matcher has returned a part of the Corpus; a sentence it
\* kept matches only behind its first character, and a sentence it dropped
\* would match without regard to case.
C7_Witness ==
    /\ ~hist.matched.isNone
    /\ hist.matched.val # <<>>
    /\ \E k \in 1..Len(hist.matched.val) :
          ~match_at(args.regex, hist.matched.val[k], 1, 1, flags)
    /\ \E k \in 1..Len(hist.corpus.val) :
          /\ ~RegexPredicate(args.regex, hist.corpus.val[k], args.ignore_case)
          /\ RegexPredicate(args.regex, hist.corpus.val[k], TRUE)

(* C8: correct_those is idempotent: applied to its own result it returns   *)
(* that result, and a sentence that starts and ends with the same quote    *)
(* character, or neither starts nor ends with one, is returned unchanged.  *)
C8_CorrectorIdempotent ==
    LET Quoted(s, q) == startswith(s, q) /\ endswith(s, q)
        Bare(s) == /\ ~startswith(s, DQ) /\ ~startswith(s, SQ)
                   /\ ~endswith(s, DQ) /\ ~endswith(s, SQ)
    IN ~hist.first.isNone =>
        /\ \A k \in 1..Len(hist.input) :
              (Quoted(hist.input[k], DQ) \/ Quoted(hist.input[k], SQ) \/ Bare(hist.input[k]))
                  => hist.first.val[k] = hist.input[k]
        /\ Len(hist.first.val) = Len(hist.input)
        /\ \A k \in 1..i : sentences.val[k] = hist.first.val[k]
        /\ (pc = "output" => sentences = hist.first)

\* C8's case: the second application has ended on a list the first one
\* changed, which also holds the one-character sentence ".
C8_Witness ==
    /\ pc = "output"
    /\ ~hist.first.isNone
    /\ hist.first.val # hist.input
    /\ \E k \in 1..Len(hist.input) : hist.input[k] = <<DQ>>

(* C10: a file that does not decode yields no sentences and does not stop  *)
(* the loop: the Corpus is the concatenation, in the order of the file     *)
(* list, of the sentences of the files that decoded.                       *)
C10_CorpusSkipsUndecodableFiles ==
    /\ (pc = "load" => all_sentences = DecodedSentences(SubSeq(files.val, 1, i)))
    /\ (pc # "load" => /\ ~hist.corpus.isNone
                       /\ hist.corpus.val = DecodedSentences(files.val)
                       /\ sentences = hist.corpus)

\* C10's case: the loop has ended on a list whose first file does not
\* decode and whose next file gave sentences.
C10_Witness ==
    /\ pc # "load"
    /\ Len(files.val) >= 2
    /\ ~disk[files.val[1]].decodes
    /\ disk[files.val[1]].sentences # <<>>
    /\ disk[files.val[2]].decodes
    /\ sentences.val # <<>>

====
